---------------------------- MODULE Spec2Model ----------------------------
(***************************************************************************)
(* A model of the translation service of translation-app                   *)
(* (lib/translationService.ts): translateText, the gateway calls it issues *)
(* and the recovery steps around them, and translateJson with its          *)
(* recursive traversal of a JSON value.                                    *)
(*                                                                         *)
(* Strings are sequences of one-character strings, so that trim() and the  *)
(* whitespace normalisation are computed rather than assumed.  A JSON      *)
(* value is a tagged record; an object is the sequence of its own          *)
(* properties in the order of their creation.                              *)
(***************************************************************************)
EXTENDS Integers, Sequences, FiniteSets, TLC

\* Longest text a caller passes to translateText and longest text a gateway
\* reply carries during a plain translateText call.
MaxLen == 2

\* Longest text a gateway reply carries while translateJson is running.
MaxLeafLen == 1

\* Longest string of the one-string tree given to translateJson where the
\* white-space normalisation is examined.
MaxNormLen == 4

---------------------------------------------------------------------------
(* Strings *)

Alphabet == {"a", " "}

Strs(n) == UNION {[1..k -> Alphabet] : k \in 0..n}

\* What JavaScript's \s and trim() treat as white space, among the
\* characters of the model.
IsSpace(c) == c \in {" ", "\n"}

RECURSIVE TrimStart(_)
TrimStart(s) ==
  IF s = <<>> THEN <<>>
  ELSE IF IsSpace(Head(s)) THEN TrimStart(Tail(s))
  ELSE s

RECURSIVE TrimEnd(_)
TrimEnd(s) ==
  IF s = <<>> THEN <<>>
  ELSE IF IsSpace(s[Len(s)]) THEN TrimEnd(SubSeq(s, 1, Len(s) - 1))
  ELSE s

\* String.prototype.trim
TrimStr(s) == TrimEnd(TrimStart(s))

\* s.replace(/\s+/g, ' '): every maximal run of white space becomes one space.
RECURSIVE CollapseSpaces(_)
CollapseSpaces(s) ==
  IF s = <<>> THEN <<>>
  ELSE IF IsSpace(Head(s))
       THEN <<" ">> \o CollapseSpaces(TrimStart(Tail(s)))
       ELSE <<Head(s)>> \o CollapseSpaces(Tail(s))

normOneLine(s) == TrimStr(CollapseSpaces(s))

Digits == <<"0", "1", "2", "3", "4", "5", "6", "7", "8", "9">>

---------------------------------------------------------------------------
(* JSON values *)

JStr(s)  == [t |-> "string", v |-> s]
JNum(n)  == [t |-> "number", v |-> n]
JBool(b) == [t |-> "boolean", v |-> b]
JNull    == [t |-> "null"]
JArr(xs) == [t |-> "array", v |-> xs]
\* An object: its own properties in the order of their creation.
JObj(es) == [t |-> "object", v |-> es]
Prop(k, x) == [k |-> k, v |-> x]

ProtoKey == <<"_", "_", "p", "r", "o", "t", "o", "_", "_">>

\* translatedObj[key] = value on an object built from {}: an ordinary key
\* becomes an own property (replacing an earlier one of the same name); the
\* key __proto__ reaches the setter inherited from Object.prototype, which
\* changes the prototype and never creates an own property.
ObjSet(es, key, val) ==
  IF key = ProtoKey THEN es
  ELSE IF \E i \in 1..Len(es) : es[i].k = key
       THEN [i \in 1..Len(es) |-> IF es[i].k = key THEN Prop(key, val) ELSE es[i]]
       ELSE Append(es, Prop(key, val))

\* A key that is an array index: decimal digits without a leading zero.  (The
\* upper limit JavaScript sets, 2^32 - 2, is beyond the keys used here.)
IsArrayIndex(key) ==
  /\ key # <<>>
  /\ \A i \in 1..Len(key) : \E n \in 1..Len(Digits) : Digits[n] = key[i]
  /\ Len(key) > 1 => key[1] # "0"

\* The number an array-index key denotes.
RECURSIVE IndexValue(_)
IndexValue(key) ==
  IF key = <<>> THEN 0
  ELSE 10 * IndexValue(SubSeq(key, 1, Len(key) - 1))
       + (CHOOSE n \in 1..Len(Digits) : Digits[n] = key[Len(key)]) - 1

\* The properties of es whose keys are array indices (indices = TRUE), or
\* those whose keys are not, in the order of es.
RECURSIVE KeptProps(_, _)
KeptProps(es, indices) ==
  IF es = <<>> THEN <<>>
  ELSE (IF IsArrayIndex(Head(es).k) = indices THEN <<Head(es)>> ELSE <<>>)
       \o KeptProps(Tail(es), indices)

\* Properties with array-index keys in ascending order of their numbers.
RECURSIVE AscendingIndices(_)
AscendingIndices(es) ==
  IF es = <<>> THEN <<>>
  ELSE LET m == CHOOSE i \in 1..Len(es) :
                  \A j \in 1..Len(es) : IndexValue(es[i].k) <= IndexValue(es[j].k)
       IN  <<es[m]>> \o AscendingIndices(SubSeq(es, 1, m - 1) \o SubSeq(es, m + 1, Len(es)))

\* Object.entries of an object whose own properties were created in the
\* order es: the array-index keys first, in ascending numeric order, then
\* the other keys in the order of their creation.
ObjectEntries(es) ==
  AscendingIndices(KeptProps(es, TRUE)) \o KeptProps(es, FALSE)

\* The texts translateJsonRecursive passes to translateText, in the order it
\* reaches them: a string is one text, an array its items' texts in index
\* order, an object its property values' texts in Object.entries order.
RECURSIVE StringLeaves(_)
RECURSIVE LeavesOfItems(_)
RECURSIVE LeavesOfProps(_)
StringLeaves(obj) ==
  IF obj.t = "string" THEN <<obj.v>>
  ELSE IF obj.t = "array" THEN LeavesOfItems(obj.v)
  ELSE IF obj.t = "object" THEN LeavesOfProps(ObjectEntries(obj.v))
  ELSE <<>>
LeavesOfItems(xs) ==
  IF xs = <<>> THEN <<>> ELSE StringLeaves(Head(xs)) \o LeavesOfItems(Tail(xs))
\* A traversal that also takes every key for a text to translate.
RECURSIVE LeavesOfPropsWithKeys(_)
LeavesOfPropsWithKeys(es) ==
  IF es = <<>> THEN <<>>
  ELSE <<Head(es).k>> \o StringLeaves(Head(es).v) \o LeavesOfPropsWithKeys(Tail(es))

LeavesOfProps(es) ==
  IF es = <<>> THEN <<>> ELSE StringLeaves(Head(es).v) \o LeavesOfProps(Tail(es))

\* The value translateJsonRecursive returns for obj when the successive
\* translateText calls returned the texts ts: [val, rest], rest being the
\* texts not yet consumed.
RECURSIVE translateJsonRecursive(_, _)
RECURSIVE TranslateItems(_, _, _)
RECURSIVE TranslateProps(_, _, _)
translateJsonRecursive(obj, ts) ==
  IF obj.t = "string" THEN [val |-> JStr(Head(ts)), rest |-> Tail(ts)]
  ELSE IF obj.t = "array" THEN TranslateItems(obj.v, ts, <<>>)
  ELSE IF obj.t = "object" THEN TranslateProps(ObjectEntries(obj.v), ts, <<>>)
  ELSE [val |-> obj, rest |-> ts]
TranslateItems(xs, ts, translatedArray) ==
  IF xs = <<>> THEN [val |-> JArr(translatedArray), rest |-> ts]
  ELSE LET r == translateJsonRecursive(Head(xs), ts)
       IN  TranslateItems(Tail(xs), r.rest, Append(translatedArray, r.val))
TranslateProps(es, ts, translatedObj) ==
  IF es = <<>> THEN [val |-> JObj(translatedObj), rest |-> ts]
  ELSE LET r == translateJsonRecursive(Head(es).v, ts)
       IN  TranslateProps(Tail(es), r.rest, ObjSet(translatedObj, Head(es).k, r.val))

\* A guard that tests only !jsonData.
IsValidJsonDataTruthy(jsonData) == jsonData.t # "null"

\* translateJson's guard: !jsonData || typeof jsonData !== 'object'.
\* null is falsy; arrays and objects are the values whose typeof is 'object'.
IsValidJsonData(jsonData) == jsonData.t \in {"array", "object"}


---------------------------------------------------------------------------
(* Requests, gateway replies and errors *)

Languages == {"English", "Korean"}

\* 'openai' and 'anthropic' are the Provider type; any other value reaches the
\* final else of translateText's provider test.
Providers == {"openai", "anthropic", "other"}

\* The JSON values given to translateJson.
JsonInputs ==
  << JStr(<<"a">>),
     JNum(1),
     JBool(TRUE),
     JNull,
     JArr(<<>>),
     JObj(<<>>),
     JArr(<<JStr(<<"a">>), JNum(0), JStr(<<"a">>)>>),
     JObj(<<Prop(<<"a">>, JStr(<<"a">>)),
            Prop(<<"b">>, JObj(<<Prop(<<"c">>, JArr(<<JStr(<<>>)>>))>>))>>),
     JObj(<<Prop(<<"n">>, JNum(1)), Prop(<<"t">>, JBool(FALSE)), Prop(<<"z">>, JNull)>>),
     JObj(<<Prop(ProtoKey, JStr(<<"a">>)), Prop(<<"a">>, JNull)>>),
     JObj(<<Prop(<<"b">>, JStr(<<"a">>)), Prop(<<"1", "0">>, JNum(0)),
            Prop(<<"9">>, JStr(<<>>))>>) >>

\* A value thrown with `throw new Error(message)`, or by a provider client.
ThrownError(message) == [isError |-> TRUE, message |-> message]

\* The rejection of a gateway call: the clients throw Error instances.
GatewayError == ThrownError("Connection error.")

NoTranslationMsg == "No translation received from the API"

null == [isNull |-> TRUE]

\* The object a well-formed first reply decodes to.
AiJson(d, mm, s, t) ==
  JObj(<<Prop("detectedLanguage", JStr(d)), Prop("languageMismatch", JBool(mm)),
         Prop("suggestedText", JStr(s)), Prop("translatedText", JStr(t))>>)

\* Replies the output-contract parser refuses: text that is no JSON, JSON
\* that is no object, an object lacking a field, a field of the wrong kind.
MalformedReplies ==
  << [decodes |-> FALSE],
     [decodes |-> TRUE, val |-> JNull],
     [decodes |-> TRUE, val |-> JArr(<<>>)],
     [decodes |-> TRUE,
      val |-> JObj(<<Prop("detectedLanguage", JStr("English")),
                     Prop("languageMismatch", JBool(FALSE)),
                     Prop("suggestedText", JStr(<<>>))>>)],
     [decodes |-> TRUE,
      val |-> JObj(<<Prop("detectedLanguage", JStr("English")),
                     Prop("languageMismatch", JStr(<<"a">>)),
                     Prop("suggestedText", JStr(<<>>)),
                     Prop("translatedText", JStr(<<"a">>))>>)] >>

\* JavaScript truthiness of a decoded JSON value.
Truthy(x) ==
  CASE x.t = "null"    -> FALSE
    [] x.t = "boolean" -> x.v
    [] x.t = "number"  -> x.v # 0
    [] x.t = "string"  -> x.v # <<>>
    [] OTHER           -> TRUE

\* typeof x[key] === kind, for a decoded JSON value x.
TypeofField(x, key, kind) ==
  /\ x.t = "object"
  /\ \E i \in 1..Len(x.v) : x.v[i].k = key /\ x.v[i].v.t = kind

\* x[key], for an object x that has the property.
Field(x, key) == x.v[CHOOSE i \in 1..Len(x.v) : x.v[i].k = key].v.v

\* A parser that is content with a translatedText and fills in the rest.
safeParseAiJsonPartial(raw) ==
  IF ~raw.decodes THEN null
  ELSE LET parsed == raw.val
           StrOr(key, dflt) ==
             IF TypeofField(parsed, key, "string") THEN Field(parsed, key) ELSE dflt
       IN  IF Truthy(parsed) /\ TypeofField(parsed, "translatedText", "string")
           THEN [detectedLanguage |-> StrOr("detectedLanguage", <<>>),
                 languageMismatch |->
                   IF TypeofField(parsed, "languageMismatch", "boolean")
                   THEN Field(parsed, "languageMismatch") ELSE FALSE,
                 suggestedText    |-> StrOr("suggestedText", <<>>),
                 translatedText   |-> Field(parsed, "translatedText")]
           ELSE null

\* safeParseAiJson, on what JSON.parse makes of the reply: a decoding error is
\* caught and yields null, as does any value that lacks one of the four
\* fields with its kind.
safeParseAiJson(raw) ==
  IF ~raw.decodes THEN null
  ELSE LET parsed == raw.val IN
       IF /\ Truthy(parsed)
          /\ TypeofField(parsed, "detectedLanguage", "string")
          /\ TypeofField(parsed, "languageMismatch", "boolean")
          /\ TypeofField(parsed, "suggestedText", "string")
          /\ TypeofField(parsed, "translatedText", "string")
       THEN [detectedLanguage |-> Field(parsed, "detectedLanguage"),
             languageMismatch |-> Field(parsed, "languageMismatch"),
             suggestedText    |-> Field(parsed, "suggestedText"),
             translatedText   |-> Field(parsed, "translatedText")]
       ELSE null

\* looksUntranslated, which translateText never calls.  The language names
\* of Languages carry no white space, so trim() leaves them as they are.
looksUntranslated(args) ==
  IF TrimStr(args.original) = <<>> \/ TrimStr(args.translated) = <<>> THEN FALSE
  ELSE IF args.sourceLanguage = args.targetLanguage THEN FALSE
  ELSE normOneLine(args.original) = normOneLine(args.translated)

\* userContent: the two language lines and "User input:" (written "H" here),
\* then the text, the whole trimmed.
UserContent(request) == TrimStr(<<"\n", "H", "\n">> \o request.text \o <<"\n">>)

\* A contract that compares the suggestion and the text trimmed only.
NormalizeSuggestedTrimmed(result, request) ==
  LET r1 == IF /\ result.languageMismatch
               /\ \/ result.suggestedText = <<>>
                  \/ TrimStr(result.suggestedText) = TrimStr(request.text)
            THEN [result EXCEPT !.suggestedText = <<>>]
            ELSE result
      suggested == r1.suggestedText
  IN  IF suggested = UserContent(request)
      THEN [r1 EXCEPT !.suggestedText = <<>>]
      ELSE r1

\* The suggestedText contract applied after a successful parse.
NormalizeSuggested(result, request) ==
  LET r1 == IF /\ result.languageMismatch
               /\ \/ result.suggestedText = <<>>
                  \/ normOneLine(result.suggestedText) = normOneLine(request.text)
            THEN [result EXCEPT !.suggestedText = <<>>]
            ELSE result
      suggested == r1.suggestedText
  IN  IF suggested = UserContent(request)
      THEN [r1 EXCEPT !.suggestedText = <<>>]
      ELSE r1

\* The test made on the parsed result before anything else is done with it.
EmptyTranslation(result) == result.translatedText = <<>>

\* A fallback text read without trim().
FallbackTextUntrimmed(text) == text

\* content?.trim() || '' (OpenAI chat) and content[0].text.trim() (Anthropic)
\* of the fallback reply.
FallbackText(text) == TrimStr(text)

\* What the fallback returns for a non-empty text.
FallbackOutcome(request, translatedText) ==
  [translatedText   |-> translatedText,
   provider         |-> request.provider,
   detectedLanguage |-> request.sourceLanguage,
   languageMismatch |-> FALSE,
   suggestedText    |-> <<>>]

\* A verification whose empty output leaves the translation as it was.
VerifiedIfNonEmpty(result, outputText) ==
  IF outputText # <<>> THEN [result EXCEPT !.translatedText = outputText] ELSE result

\* result.translatedText = verify.output_text
Verified(result, outputText) == [result EXCEPT !.translatedText = outputText]

\* A no-op test that disregards white space.
NeedsRetryLoose(result) ==
  normOneLine(result.suggestedText) = normOneLine(result.translatedText)

\* The no-op test made after verification.
NeedsRetry(result) == result.suggestedText = result.translatedText

\* getOpenAIResponseText (OpenAI) and content[0].text.trim() (Anthropic) of
\* a retry reply that carries its text as a string.
RetryText(text) == TrimStr(text)

\* A reply of the Responses API without an output_text string: `output` is
\* an array of items or something else, an item's `content` an array of
\* parts or something else, a part's `text` a string or something else.
NotAnArray == [isArray |-> FALSE]
ArrayOf(xs) == [isArray |-> TRUE, elems |-> xs]
Part(type, text) == [type |-> type, textIsString |-> TRUE, text |-> text]
PartWithoutText(type) == [type |-> type, textIsString |-> FALSE]

\* The `output` of such replies.
OutputSamples ==
  << NotAnArray,
     ArrayOf(<<>>),
     ArrayOf(<< NotAnArray,
                ArrayOf(<< Part("output_text", <<"a">>),
                           Part("refusal", <<"a">>),
                           PartWithoutText("output_text") >>) >>),
     ArrayOf(<< ArrayOf(<< Part("output_text", <<" ">>) >>),
                ArrayOf(<< Part("output_text", <<"a">>) >>) >>) >>

RECURSIVE JoinParts(_)
RECURSIVE JoinItems(_)

\* filter(...).map(c => c.text).join('') over the parts of one item
JoinParts(parts) ==
  IF parts = <<>> THEN <<>>
  ELSE LET c == Head(parts) IN
       (IF c.type = "output_text" /\ c.textIsString THEN c.text ELSE <<>>)
         \o JoinParts(Tail(parts))

\* flatMap over the items of `output`
JoinItems(items) ==
  IF items = <<>> THEN <<>>
  ELSE LET item == Head(items) IN
       (IF item.isArray THEN JoinParts(item.elems) ELSE <<>>)
         \o JoinItems(Tail(items))

\* `joined` of getOpenAIResponseText
Joined(output) == IF output.isArray THEN JoinItems(output.elems) ELSE <<>>

\* getOpenAIResponseText of a reply without an output_text string
getOpenAIResponseText(output) == TrimStr(Joined(output))

\* if (retryText) result.translatedText = retryText
Retried(result, retryText) ==
  IF retryText # <<>> THEN [result EXCEPT !.translatedText = retryText] ELSE result

\* A returned value whose languageMismatch is worked out anew from the
\* detected and the requested source language.
FinalOutcomeRecomputed(request, result) ==
  [translatedText   |-> result.translatedText,
   provider         |-> request.provider,
   detectedLanguage |-> result.detectedLanguage,
   languageMismatch |-> result.detectedLanguage # request.sourceLanguage,
   suggestedText    |-> result.suggestedText]

\* The value translateText returns after verification and retry.
FinalOutcome(request, result) ==
  [translatedText   |-> result.translatedText,
   provider         |-> request.provider,
   detectedLanguage |-> result.detectedLanguage,
   languageMismatch |-> result.languageMismatch,
   suggestedText    |-> result.suggestedText]

\* A catch that drops the message of what was thrown.
CatchTranslateTextGeneric(error) ==
  [isError |-> FALSE, message |-> "Translation failed", code |-> "TRANSLATION_ERROR"]

\* translateText's catch: whatever was thrown becomes an ApiError.
CatchTranslateText(error) ==
  [isError |-> FALSE,
   message |-> IF error.isError THEN error.message ELSE "Translation failed",
   code    |-> "TRANSLATION_ERROR"]

\* translateJson's catch.
CatchTranslateJson(error) ==
  [isError |-> FALSE,
   message |-> IF error.isError THEN error.message ELSE "JSON translation failed",
   code    |-> "JSON_TRANSLATION_ERROR"]

\* The client each gateway call of translateText goes to.
FirstClient(provider)    == provider
FallbackClient(provider) == provider
VerifyClient(provider)   == "openai"
RetryClient(provider)    == provider

---------------------------------------------------------------------------
(* State *)

VARIABLES
  mode,          \* "idle", or which function the caller invoked: "text", "json"
  request,       \* the TranslationRequest of the running translateText
  pc,            \* where translateText stands: the await it is suspended at,
                 \* "returned" or "rejected"
  result,        \* translateText's local `result`
  response,      \* what translateText returned, or the ApiError it threw
  calls,         \* the gateway calls translateText has issued, in order
  pending,       \* the gateway call being awaited
  jsonRequest,   \* the JsonTranslationRequest of the running translateJson
  jpc,           \* where translateJson stands: "awaiting" a string's
                 \* translateText, "returned" or "rejected"
  translated,    \* the texts translateText returned to translateJsonRecursive
  sent,          \* the texts translateJsonRecursive passed to translateText
  jsonResponse,  \* what translateJson returned, or the ApiError it threw
  parserInput,   \* what JSON.parse makes of the text given to safeParseAiJson
  parserOutput,  \* how that safeParseAiJson call ended
  ui,            \* the state of the TranslationInterface component
  handler        \* the latest run of a translate handler of the component

textVars == <<request, pc, result, response, calls, pending>>
jsonVars == <<jsonRequest, jpc, translated, sent, jsonResponse>>
parserVars == <<parserInput, parserOutput>>
uiVars == <<ui, handler>>
serviceVars == <<mode, request, pc, result, response, calls, pending,
                 jsonRequest, jpc, translated, sent, jsonResponse>>
vars == <<mode, request, pc, result, response, calls, pending,
          jsonRequest, jpc, translated, sent, jsonResponse,
          parserInput, parserOutput, ui, handler>>

Init ==
  /\ mode = "idle"
  /\ request = null
  /\ pc = "idle"
  /\ result = null
  /\ response = null
  /\ calls = <<>>
  /\ pending = null
  /\ jsonRequest = null
  /\ jpc = "idle"
  /\ translated = <<>>
  /\ sent = <<>>
  /\ jsonResponse = null
  /\ parserInput = null
  /\ parserOutput = null
  /\ ui = null
  /\ handler = null

\* The texts a gateway reply carries while the component is what calls the
\* service: empty, white space only, and neither.
UiReplyTexts == {<<>>, <<" ">>, <<"a">>}

\* The texts a gateway reply may carry.
ReplyTexts ==
  IF ui # null THEN UiReplyTexts
  ELSE Strs(IF mode = "json" THEN MaxLeafLen ELSE MaxLen)

\* What a first reply may carry as suggestedText: any such text, the prompt
\* sent back, the request's text with its white space tidied.
SuggestedTexts ==
  ReplyTexts \cup {UserContent(request), TrimStr(request.text),
                   CollapseSpaces(request.text), normOneLine(request.text)}

---------------------------------------------------------------------------
(* translateText *)

\* A gateway call is issued and awaited; prior are the calls before it.
Issue(prior, kind, client, api, input) ==
  /\ pending' = [kind |-> kind, client |-> client, api |-> api, input |-> input]
  /\ calls' = Append(prior, [kind |-> kind, client |-> client, api |-> api,
                             reply |-> "pending", output |-> <<>>])
  /\ pc' = kind

\* A call that is not waited for: it stays in flight when the next is issued.
SettledLate(how, output) == calls

\* The awaited call has settled: it threw, or it returned and `output` is
\* the text read from its reply (for the first call, whose reply goes to
\* the parser, the suggestedText the parser found in it, if it found one).
Settled(how, output) ==
  [calls EXCEPT ![Len(calls)] = [@ EXCEPT !.reply = how, !.output = output]]

\* A throw inside the try block: the catch rethrows it as an ApiError.
Reject(error) ==
  /\ pc' = "rejected"
  /\ response' = CatchTranslateText(error)
  /\ pending' = null

Return(value) ==
  /\ pc' = "returned"
  /\ response' = value
  /\ pending' = null

FirstApi(provider)    == IF provider = "openai" THEN "chat.completions" ELSE "messages"
FallbackApi(provider) == IF provider = "openai" THEN "chat.completions" ELSE "messages"
RetryApi(provider)    == IF provider = "openai" THEN "responses" ELSE "messages"

\* translateText from its entry to its first await.
StartTranslateText(req) ==
  /\ request' = req
  /\ result' = null
  /\ IF req.provider \in {"openai", "anthropic"}
     THEN /\ Issue(<<>>, "first", FirstClient(req.provider), FirstApi(req.provider),
                   UserContent(req))
          /\ response' = null
     ELSE /\ calls' = <<>>
          /\ Reject(ThrownError("Invalid provider selected"))

\* The caller invokes translateText.
TextCall ==
  /\ mode = "idle"
  /\ mode' = "text"
  /\ \E text \in Strs(MaxLen), src \in Languages, tgt \in Languages,
        provider \in Providers :
       StartTranslateText([text |-> text, sourceLanguage |-> src,
                           targetLanguage |-> tgt, provider |-> provider])
  /\ UNCHANGED jsonVars
  /\ UNCHANGED <<parserVars, uiVars>>

\* The first reply has been read and handed to the parser.
FirstParsed(raw) ==
  LET parsed == safeParseAiJson(raw) IN
  IF parsed = null
  THEN /\ result' = null
       /\ Issue(Settled("returned", <<>>), "fallback", FallbackClient(request.provider),
                FallbackApi(request.provider), request.text)
       /\ UNCHANGED response
  ELSE IF EmptyTranslation(parsed)
  THEN /\ result' = parsed
       /\ calls' = Settled("returned", parsed.suggestedText)
       /\ Reject(ThrownError(NoTranslationMsg))
  ELSE LET r == NormalizeSuggested(parsed, request) IN
       /\ result' = r
       /\ Issue(Settled("returned", parsed.suggestedText), "verify",
                VerifyClient(request.provider),
                "responses", r.translatedText)
       /\ UNCHANGED response

\* The first gateway call settles.
FirstReply ==
  /\ pc = "first"
  /\ \/ /\ calls' = Settled("threw", <<>>)
        /\ Reject(GatewayError)
        /\ UNCHANGED result
     \/ \E i \in 1..Len(MalformedReplies) : FirstParsed(MalformedReplies[i])
     \/ \E d \in Languages, mm \in BOOLEAN, s \in SuggestedTexts, t \in ReplyTexts :
          FirstParsed([decodes |-> TRUE, val |-> AiJson(d, mm, s, t)])
  /\ UNCHANGED <<mode, request>>
  /\ UNCHANGED jsonVars
  /\ UNCHANGED <<parserVars, uiVars>>

\* The fallback call settles.
FallbackReply ==
  /\ pc = "fallback"
  /\ \/ /\ calls' = Settled("threw", <<>>)
        /\ Reject(GatewayError)
     \/ \E text \in ReplyTexts :
          LET translatedText == FallbackText(text) IN
          /\ calls' = Settled("returned", text)
          /\ IF translatedText = <<>>
             THEN Reject(ThrownError(NoTranslationMsg))
             ELSE Return(FallbackOutcome(request, translatedText))
  /\ UNCHANGED <<mode, request, result>>
  /\ UNCHANGED jsonVars
  /\ UNCHANGED <<parserVars, uiVars>>

\* A verification after which the retry is also made when looksUntranslated
\* finds the verified translation to repeat the request's text.
VerifyReplyLooksUntranslated ==
  /\ pc = "verify"
  /\ \/ /\ calls' = Settled("threw", <<>>)
        /\ Reject(GatewayError)
        /\ UNCHANGED result
     \/ \E outputText \in ReplyTexts :
          LET r == Verified(result, outputText) IN
          /\ result' = r
          /\ IF /\ \/ NeedsRetry(r)
                   \/ looksUntranslated([original       |-> request.text,
                                          translated     |-> r.translatedText,
                                          sourceLanguage |-> request.sourceLanguage,
                                          targetLanguage |-> request.targetLanguage])
                /\ request.provider \in {"openai", "anthropic"}
             THEN /\ Issue(Settled("returned", outputText), "retry",
                           RetryClient(request.provider), RetryApi(request.provider),
                           request.text)
                  /\ UNCHANGED response
             ELSE /\ calls' = Settled("returned", outputText)
                  /\ Return(FinalOutcome(request, r))
  /\ UNCHANGED <<mode, request>>
  /\ UNCHANGED jsonVars
  /\ UNCHANGED <<parserVars, uiVars>>

\* The verification call settles.
VerifyReply ==
  /\ pc = "verify"
  /\ \/ /\ calls' = Settled("threw", <<>>)
        /\ Reject(GatewayError)
        /\ UNCHANGED result
     \/ \E outputText \in ReplyTexts :
          LET r == Verified(result, outputText) IN
          /\ result' = r
          /\ IF NeedsRetry(r) /\ request.provider \in {"openai", "anthropic"}
             THEN /\ Issue(Settled("returned", outputText), "retry",
                           RetryClient(request.provider), RetryApi(request.provider),
                           request.text)
                  /\ UNCHANGED response
             ELSE /\ calls' = Settled("returned", outputText)
                  /\ Return(FinalOutcome(request, r))
  /\ UNCHANGED <<mode, request>>
  /\ UNCHANGED jsonVars
  /\ UNCHANGED <<parserVars, uiVars>>

\* A retry whose failure is swallowed: the verified result is returned.
RetryReplyBestEffort ==
  /\ pc = "retry"
  /\ \/ /\ calls' = Settled("threw", <<>>)
        /\ Return(FinalOutcome(request, result))
        /\ UNCHANGED result
     \/ \E text \in ReplyTexts :
          LET r == Retried(result, RetryText(text)) IN
          /\ result' = r
          /\ calls' = Settled("returned", text)
          /\ Return(FinalOutcome(request, r))
  /\ UNCHANGED <<mode, request>>
  /\ UNCHANGED jsonVars
  /\ UNCHANGED <<parserVars, uiVars>>

\* A retry that is made again for as long as its reply leaves the translation
\* equal to the suggestion.
RetryReplyRepeats ==
  /\ pc = "retry"
  /\ \/ /\ calls' = Settled("threw", <<>>)
        /\ Reject(GatewayError)
        /\ UNCHANGED result
     \/ \E text \in ReplyTexts :
          LET r == Retried(result, RetryText(text)) IN
          /\ result' = r
          /\ IF NeedsRetry(r) /\ Len(calls) < 4
             THEN /\ Issue(Settled("returned", text), "retry",
                           RetryClient(request.provider), RetryApi(request.provider),
                           request.text)
                  /\ UNCHANGED response
             ELSE /\ calls' = Settled("returned", text)
                  /\ Return(FinalOutcome(request, r))
  /\ UNCHANGED <<mode, request>>
  /\ UNCHANGED jsonVars
  /\ UNCHANGED <<parserVars, uiVars>>

\* The retry call settles: it throws, it returns a text, or it returns a
\* reply in which the code finds no text where it first looks (no
\* output_text string from OpenAI, a first content block that is not of
\* type 'text' from Anthropic).
RetryReply ==
  /\ pc = "retry"
  /\ \/ /\ calls' = Settled("threw", <<>>)
        /\ Reject(GatewayError)
        /\ UNCHANGED result
     \/ \E text \in ReplyTexts :
          LET r == Retried(result, RetryText(text)) IN
          /\ result' = r
          /\ calls' = Settled("returned", text)
          /\ Return(FinalOutcome(request, r))
     \/ /\ request.provider = "openai"
        /\ \E i \in 1..Len(OutputSamples) :
             LET r == Retried(result, getOpenAIResponseText(OutputSamples[i])) IN
             /\ result' = r
             /\ calls' = Settled("returned", Joined(OutputSamples[i]))
             /\ Return(FinalOutcome(request, r))
     \/ /\ request.provider = "anthropic"
        /\ LET r == Retried(result, <<>>) IN
           /\ result' = r
           /\ calls' = Settled("returned", <<>>)
           /\ Return(FinalOutcome(request, r))
  /\ UNCHANGED <<mode, request>>
  /\ UNCHANGED jsonVars
  /\ UNCHANGED <<parserVars, uiVars>>

---------------------------------------------------------------------------
(* translateJson *)

LeafRequest(jr, text) ==
  [text |-> text, sourceLanguage |-> jr.sourceLanguage,
   targetLanguage |-> jr.targetLanguage, provider |-> jr.provider]

\* translateJsonRecursive runs on from the point where ts are the texts it
\* has got back: to the translateText call of the next string, or, when no
\* string is left, to translateJson's return.
ContinueJson(jr, ts) ==
  LET leaves == StringLeaves(jr.jsonData) IN
  IF Len(ts) = Len(leaves)
  THEN /\ jpc' = "returned"
       /\ jsonResponse' = [translatedJson |-> translateJsonRecursive(jr.jsonData, ts).val,
                           provider |-> jr.provider]
       /\ UNCHANGED <<sent, textVars>>
  ELSE /\ jpc' = "awaiting"
       /\ sent' = Append(sent, leaves[Len(ts) + 1])
       /\ StartTranslateText(LeafRequest(jr, leaves[Len(ts) + 1]))
       /\ UNCHANGED jsonResponse

\* translateJson from its entry to its first await, or to its end when it
\* has nothing to await.
StartTranslateJson(jr) ==
  /\ jsonRequest' = jr
  /\ UNCHANGED translated
  /\ IF ~IsValidJsonData(jr.jsonData)
     THEN /\ jpc' = "rejected"
          /\ jsonResponse' = CatchTranslateJson(ThrownError("Invalid JSON data provided"))
          /\ UNCHANGED <<sent, textVars>>
     ELSE ContinueJson(jr, <<>>)

\* The caller invokes translateJson.
JsonCall ==
  /\ mode = "idle"
  /\ mode' = "json"
  /\ \E i \in 1..Len(JsonInputs), src \in Languages, tgt \in Languages,
        provider \in Providers :
       StartTranslateJson([jsonData |-> JsonInputs[i], sourceLanguage |-> src,
                           targetLanguage |-> tgt, provider |-> provider])
  /\ UNCHANGED <<parserVars, uiVars>>

\* A traversal that writes each translation into the tree it was given.
LeafReturnInPlace ==
  /\ mode = "json" /\ jpc = "awaiting" /\ pc = "returned"
  /\ translated' = Append(translated, response.translatedText)
  /\ LET leaves == StringLeaves(jsonRequest.jsonData)
         ts == translated' \o SubSeq(leaves, Len(translated') + 1, Len(leaves))
     IN  jsonRequest' = [jsonRequest EXCEPT
                           !.jsonData = translateJsonRecursive(jsonRequest.jsonData, ts).val]
  /\ ContinueJson(jsonRequest, translated')
  /\ UNCHANGED mode
  /\ UNCHANGED <<parserVars, uiVars>>

\* A traversal that gives a string equal to the one before it that string's
\* translation, without a translateText call of its own.
LeafReturnReusing ==
  /\ mode = "json" /\ jpc = "awaiting" /\ pc = "returned"
  /\ LET leaves == StringLeaves(jsonRequest.jsonData)
         ts == Append(translated, response.translatedText)
     IN  translated' =
           IF Len(ts) < Len(leaves) /\ leaves[Len(ts) + 1] = leaves[Len(ts)]
           THEN Append(ts, response.translatedText)
           ELSE ts
  /\ ContinueJson(jsonRequest, translated')
  /\ UNCHANGED <<mode, jsonRequest>>
  /\ UNCHANGED <<parserVars, uiVars>>

\* A string's translateText has returned: its translatedText takes the
\* string's place and the traversal goes on.
LeafReturn ==
  /\ mode = "json" /\ jpc = "awaiting" /\ pc = "returned"
  /\ translated' = Append(translated, response.translatedText)
  /\ ContinueJson(jsonRequest, translated')
  /\ UNCHANGED <<mode, jsonRequest>>
  /\ UNCHANGED <<parserVars, uiVars>>

\* A traversal that keeps the original text of a string whose translateText
\* has thrown, and goes on.
LeafRejectKeepsGoing ==
  /\ mode = "json" /\ jpc = "awaiting" /\ pc = "rejected"
  /\ translated' = Append(translated, request.text)
  /\ ContinueJson(jsonRequest, translated')
  /\ UNCHANGED <<mode, jsonRequest>>
  /\ UNCHANGED <<parserVars, uiVars>>

\* A string's translateText has thrown: the error leaves every pending
\* translateJsonRecursive and reaches translateJson's catch.
LeafReject ==
  /\ mode = "json" /\ jpc = "awaiting" /\ pc = "rejected"
  /\ jpc' = "rejected"
  /\ jsonResponse' = CatchTranslateJson(response)
  /\ UNCHANGED <<mode, jsonRequest, translated, sent, textVars>>
  /\ UNCHANGED <<parserVars, uiVars>>

---------------------------------------------------------------------------

Next ==
  \/ TextCall
  \/ FirstReply
  \/ FallbackReply
  \/ VerifyReply
  \/ RetryReply
  \/ JsonCall
  \/ LeafReturn
  \/ LeafReject

Spec == Init /\ [][Next]_vars

---------------------------------------------------------------------------
(* Properties of translateJson *)

\* The keys of every mapping of a JSON value.
RECURSIVE KeysOf(_)
KeysOf(x) ==
  IF x.t = "array" THEN UNION {KeysOf(x.v[i]) : i \in 1..Len(x.v)}
  ELSE IF x.t = "object"
       THEN {x.v[i].k : i \in 1..Len(x.v)} \cup UNION {KeysOf(x.v[i].v) : i \in 1..Len(x.v)}
  ELSE {}

\* The values of the string leaves of a JSON value.
RECURSIVE LeafValues(_)
LeafValues(x) ==
  IF x.t = "string" THEN {x.v}
  ELSE IF x.t = "array" THEN UNION {LeafValues(x.v[i]) : i \in 1..Len(x.v)}
  ELSE IF x.t = "object" THEN UNION {LeafValues(x.v[i].v) : i \in 1..Len(x.v)}
  ELSE {}

\* y has the shape of x: the same kind at every position, the same key set
\* in every mapping, the same length of every sequence, and every number,
\* boolean and null unchanged.
RECURSIVE SameShape(_, _)
SameShape(x, y) ==
  /\ x.t = y.t
  /\ CASE x.t = "string" -> TRUE
       [] x.t = "array"  ->
            /\ Len(x.v) = Len(y.v)
            /\ \A i \in 1..Len(x.v) : SameShape(x.v[i], y.v[i])
       [] x.t = "object" ->
            /\ {x.v[i].k : i \in 1..Len(x.v)} = {y.v[i].k : i \in 1..Len(y.v)}
            /\ \A i \in 1..Len(x.v) : \A j \in 1..Len(y.v) :
                 x.v[i].k = y.v[j].k => SameShape(x.v[i].v, y.v[j].v)
       [] OTHER -> x = y

(* C1: whenever translateJson has returned, its result has the shape of the
   input: same key sets, same sequence lengths, every number, boolean and
   null unchanged in place, only strings differing. *)
C1_ShapePreserved ==
  jpc = "returned" => SameShape(jsonRequest.jsonData, jsonResponse.translatedJson)

(* C2: whenever translateText has returned an outcome, its translatedText is
   not the empty string. *)
C2_TranslatedTextNonEmpty ==
  pc = "returned" => response.translatedText # <<>>

(* C3: in translateJson the first string whose translateText call fails ends
   the whole call: translateJson rejects with an error that carries no tree,
   no later string is passed to translateText and no gateway call follows;
   and translateJson never returns a tree after a failed string. *)
C3_FirstFailureAborts ==
  /\ (mode = "json" /\ pc = "rejected") =>
       /\ jpc \in {"awaiting", "rejected"}
       /\ Len(sent) = Len(translated) + 1
       /\ pending = null
       /\ \A i \in 1..Len(calls) : calls[i].reply # "pending"
  /\ (jpc = "rejected" /\ sent # <<>>) =>
       /\ pc = "rejected"
       /\ DOMAIN jsonResponse = {"isError", "message", "code"}
       /\ jsonResponse.code = "JSON_TRANSLATION_ERROR"
  /\ jpc = "returned" =>
       /\ pc # "rejected"
       /\ Len(translated) = Len(sent)

\* translateJson has rejected on a failing string that other strings follow.
C3_Witness ==
  /\ jpc = "rejected"
  /\ pc = "rejected"
  /\ Len(sent) = 1
  /\ Len(sent) < Len(StringLeaves(jsonRequest.jsonData))

(* C4, as stated: translateJson rejects only when the translateText call of
   one of the strings has failed, whatever the JSON value it is given. *)
C4_Original ==
  jpc = "rejected" => (sent # <<>> /\ pc = "rejected")

(* C4, amended: given an array or an object, translateJson rejects only when
   the translateText call of one of its strings has failed and returns when
   none has; given a string, a number, a boolean or null it rejects with
   'Invalid JSON data provided' before any translateText call. *)
C4_FailsOnlyOnLeafOrTopLevel ==
  LET container == jsonRequest.jsonData.t \in {"array", "object"} IN
  /\ (jpc = "rejected" /\ container) =>
       /\ sent # <<>>
       /\ pc = "rejected"
       /\ jsonResponse.message = "JSON translation failed"
  /\ (jpc = "rejected" /\ ~container) =>
       /\ sent = <<>>
       /\ calls = <<>>
       /\ pc = "idle"
       /\ jsonResponse.message = "Invalid JSON data provided"
  /\ (mode = "json" /\ ~container) => jpc = "rejected"
  /\ (mode = "json" /\ container /\ pc # "rejected") => jpc \in {"awaiting", "returned"}
  /\ jpc = "returned" =>
       /\ container
       /\ DOMAIN jsonResponse = {"translatedJson", "provider"}
       /\ Len(translated) = Len(sent)

\* translateJson has rejected a top-level string without translating it.
C4_Witness ==
  /\ jpc = "rejected"
  /\ jsonRequest.jsonData.t = "string"
  /\ sent = <<>>

(* C5: during translateJson every text passed to translateText, and every
   source text put in a gateway call, is the value of a string leaf of the
   input, so a key that is no leaf value is never sent; and every key of the
   result is a key of the input. *)
C5_KeysNeverSent ==
  mode = "json" =>
    LET leaves == LeafValues(jsonRequest.jsonData)
        keys   == KeysOf(jsonRequest.jsonData)
    IN  /\ \A i \in 1..Len(sent) : sent[i] \in leaves /\ sent[i] \notin (keys \ leaves)
        /\ request # null => request.text \in leaves
        /\ (pending # null /\ pending.kind \in {"fallback", "retry"}) =>
             (pending.input \in leaves /\ pending.input \notin (keys \ leaves))
        /\ (pending # null /\ pending.kind = "first") =>
             \E text \in leaves : pending.input = TrimStr(<<"\n", "H", "\n">> \o text \o <<"\n">>)
        /\ jpc = "returned" => KeysOf(jsonResponse.translatedJson) \subseteq keys

\* translateJson has returned for an input with keys that are no leaf values.
C5_Witness ==
  /\ jpc = "returned"
  /\ sent # <<>>
  /\ KeysOf(jsonRequest.jsonData) \ LeafValues(jsonRequest.jsonData) # {}
  /\ KeysOf(jsonResponse.translatedJson) # {}

---------------------------------------------------------------------------
(* Properties of translateText *)

\* The first reply came back and the parser refused it.
FirstReplyMalformed ==
  /\ calls # <<>>
  /\ calls[1].reply = "returned"
  /\ result = null

\* The fallback call came back with a reply.
FallbackReturned ==
  /\ Len(calls) >= 2
  /\ calls[2].kind = "fallback"
  /\ calls[2].reply = "returned"

(* C6: when translateText rejects after a first reply that parsed but
   carried an empty translatedText, a recovery call had been attempted
   first. *)
C6_RecoveryBeforeFailure ==
  (pc = "rejected" /\ result # null /\ result.translatedText = <<>>) => Len(calls) >= 2

(* C7: when the parser refuses the first reply, translateText issues exactly
   one fallback call, carrying the request's text, and nothing after it;
   when the text read from its reply (trimmed) is not empty the call returns
   that text with detectedLanguage = sourceLanguage, languageMismatch =
   false and suggestedText = "", and when it is empty the call rejects with
   'No translation received from the API'. *)
C7_FallbackOnMalformed ==
  /\ FirstReplyMalformed =>
       /\ Len(calls) = 2
       /\ calls[2].kind = "fallback"
       /\ calls[2].client = request.provider
  /\ \A i \in 1..Len(calls) : calls[i].kind = "fallback" => (i = 2 /\ Len(calls) = 2)
  /\ pc = "fallback" => (pending.kind = "fallback" /\ pending.input = request.text)
  /\ FallbackReturned =>
       LET text == TrimStr(calls[2].output) IN
       IF text # <<>>
       THEN /\ pc = "returned"
            /\ response = [translatedText   |-> text,
                           provider         |-> request.provider,
                           detectedLanguage |-> request.sourceLanguage,
                           languageMismatch |-> FALSE,
                           suggestedText    |-> <<>>]
       ELSE /\ pc = "rejected"
            /\ response.message = "No translation received from the API"
            /\ response.code = "TRANSLATION_ERROR"

\* The fallback returned a text that had to be trimmed, and translateText
\* returned it.
C7_Witness ==
  /\ FallbackReturned
  /\ pc = "returned"
  /\ response.translatedText # calls[2].output

(* C8, as stated: when every reply of a unit is malformed or is no JSON (the
   first reply is refused by the parser and the fallback reply is plain
   text), translateText fails with the 'no translation' error. *)
C8_Original ==
  FallbackReturned =>
    (pc = "rejected" /\ response.message = "No translation received from the API")

(* C8, amended: when the first reply is refused by the parser and the
   fallback reply is empty or white space only, translateText fails with
   'No translation received from the API', and a running translateJson
   passes no further string to translateText and rejects without a tree;
   any other fallback text is returned, trimmed, as the translation. *)
C8_EmptyFallbackFails ==
  /\ (FallbackReturned /\ TrimStr(calls[2].output) = <<>>) =>
       /\ pc = "rejected"
       /\ response.message = "No translation received from the API"
       /\ response.code = "TRANSLATION_ERROR"
       /\ mode = "json" =>
            /\ jpc \in {"awaiting", "rejected"}
            /\ Len(sent) = Len(translated) + 1
            /\ jpc = "rejected" => "translatedJson" \notin DOMAIN jsonResponse
  /\ (FallbackReturned /\ TrimStr(calls[2].output) # <<>>) =>
       /\ pc = "returned"
       /\ response.translatedText = TrimStr(calls[2].output)

\* translateJson has rejected, after one string was translated, on a string
\* whose fallback reply was empty.
C8_Witness ==
  /\ mode = "json"
  /\ jpc = "rejected"
  /\ translated # <<>>
  /\ FallbackReturned
  /\ TrimStr(calls[2].output) = <<>>

(* C9: when a gateway call of a unit throws, whichever of the four it is,
   that call is the unit's last, and translateText rejects with an ApiError
   of code TRANSLATION_ERROR carrying the gateway's message, returning no
   outcome. *)
C9_GatewayThrowAborts ==
  \A i \in 1..Len(calls) :
    calls[i].reply = "threw" =>
      /\ i = Len(calls)
      /\ pc = "rejected"
      /\ pending = null
      /\ DOMAIN response = {"isError", "message", "code"}
      /\ response.code = "TRANSLATION_ERROR"
      /\ response.message = "Connection error."

\* The retry call, the fourth kind of call, has thrown.
C9_Witness ==
  \E i \in 1..Len(calls) : calls[i].kind = "retry" /\ calls[i].reply = "threw"

(* C10: in every outcome translateText returns, languageMismatch = true
   implies suggestedText = "". *)
C10_MismatchClearsSuggestion ==
  pc = "returned" => (response.languageMismatch => response.suggestedText = <<>>)

(* C11: in every outcome translateText returns, a non-empty suggestedText
   differs, once white space is normalised on both sides, from the
   request's text, whether languageMismatch is true or false. *)
C11_SuggestionDiffersFromInput ==
  (pc = "returned" /\ response.suggestedText # <<>>) =>
    normOneLine(response.suggestedText) # normOneLine(request.text)

\* The retry call was issued and the text read from its reply was empty.
RetryReturnedEmpty ==
  \E i \in 1..Len(calls) :
    /\ calls[i].kind = "retry"
    /\ calls[i].reply = "returned"
    /\ RetryText(calls[i].output) = <<>>

(* C12: in every outcome translateText returns, translatedText is not
   identical to suggestedText, unless the retry call was issued and
   returned an empty text. *)
C12_TranslationDiffersFromSuggestion ==
  (pc = "returned" /\ response.translatedText = response.suggestedText) =>
    RetryReturnedEmpty

(* C13: in every outcome translateText returns, languageMismatch = true
   implies that detectedLanguage differs from the request's
   sourceLanguage. *)
C13_MismatchMeansOtherLanguage ==
  (pc = "returned" /\ response.languageMismatch) =>
    response.detectedLanguage # request.sourceLanguage

(* C15: every gateway call of a translateText run goes to the client of
   the provider named in the request. *)
C15_CallsGoToRequestedProvider ==
  \A i \in 1..Len(calls) : calls[i].client = request.provider

(* C16: when translateJson rejects because the translateText call of a
   string has rejected, the error it throws carries the message of that
   underlying failure. *)
C16_LeafErrorReportedVerbatim ==
  (jpc = "rejected" /\ sent # <<>>) => jsonResponse.message = response.message

(* C18: a translateText call for a valid provider, every gateway call of
   which has returned, has issued between 2 and 4 gateway calls when it
   ends. *)
C18_TwoToFourCalls ==
  ( /\ pc \in {"returned", "rejected"}
    /\ request.provider \in {"openai", "anthropic"}
    /\ \A i \in 1..Len(calls) : calls[i].reply = "returned" )
  => Len(calls) \in 2..4

(* C20: translateJson never changes the JSON value it was given: from the
   call on, through every step of the traversal and whether it returns or
   rejects, the caller's jsonData stays what it was. *)
C20_InputTreeUnchanged ==
  [][jsonRequest # null => jsonRequest' = jsonRequest]_vars

\* translateJson has returned a tree that differs from the one it was given.
C20_Witness ==
  /\ jpc = "returned"
  /\ sent # <<>>
  /\ jsonResponse.translatedJson # jsonRequest.jsonData

---------------------------------------------------------------------------
(* Verification and retry *)

\* How many of the calls cs are of the given kind.
KindCount(cs, kind) == Cardinality({i \in 1..Len(cs) : cs[i].kind = kind})

\* C21: when the first reply parses with a non-empty translatedText, the
\* verification call is issued at once with that translatedText as its
\* input, it is the only verification call of the run, and when it returns
\* its output replaces translatedText whatever it is (empty included); the
\* no-op test that follows is made on the replaced value.
C21_OneVerification ==
  [][/\ KindCount(calls', "verify") <= 1
     /\ (pc = "first" /\ result' # null /\ result'.translatedText # <<>>)
          => /\ pc' = "verify"
             /\ Len(calls') = 2
             /\ calls'[2].kind = "verify"
             /\ pending'.kind = "verify"
             /\ pending'.input = result'.translatedText
     /\ (pc = "verify" /\ calls'[2].reply = "returned")
          => /\ result'.translatedText = calls'[2].output
             /\ pc' \in {"retry", "returned"}
             /\ pc' = "retry" => result'.suggestedText = calls'[2].output
             /\ pc' = "returned" => response'.translatedText = calls'[2].output
    ]_vars

\* A run returned the empty output of its verification call in place of the
\* non-empty translation that had been parsed.
C21_Witness ==
  /\ pc = "returned"
  /\ Len(calls) = 2
  /\ calls[2].kind = "verify"
  /\ calls[2].output = <<>>
  /\ response.translatedText = <<>>

\* The verification call of the run has returned.
VerifyReturned ==
  /\ Len(calls) >= 2
  /\ calls[2].kind = "verify"
  /\ calls[2].reply = "returned"

\* The retry call of the run has returned.
RetryReturned ==
  /\ Len(calls) = 3
  /\ calls[3].kind = "retry"
  /\ calls[3].reply = "returned"

(* C22: once verification has returned, a retry call exists exactly when the
   verification output equals suggestedText; the retry is given the
   request's text; when it returns, translateText returns the text read from
   its reply (trimmed) if that is not empty and the verification output
   otherwise. *)
C22_RetryIffNoOp ==
  /\ VerifyReturned =>
       /\ Len(calls) = 3 <=> result.suggestedText = calls[2].output
       /\ Len(calls) = 3 => calls[3].kind = "retry"
  /\ KindCount(calls, "retry") > 0 => VerifyReturned
  /\ pc = "retry" =>
       /\ pending.kind = "retry"
       /\ pending.input = request.text
       /\ result.translatedText = calls[2].output
  /\ RetryReturned =>
       /\ pc = "returned"
       /\ response.translatedText =
            IF TrimStr(calls[3].output) # <<>>
            THEN TrimStr(calls[3].output)
            ELSE calls[2].output

\* A retry was made for a request whose text differs from the suggestion,
\* read nothing from its reply, and the verified translation was returned.
C22_Witness ==
  /\ RetryReturned
  /\ request.text # result.suggestedText
  /\ calls[2].output # <<>>
  /\ TrimStr(calls[3].output) = <<>>
  /\ response.translatedText = calls[2].output

(* C23: when the retry call throws, translateText still returns, and the
   outcome carries the translation obtained from verification. *)
C23_RetryFailureKeepsTranslation ==
  (Len(calls) = 3 /\ calls[3].kind = "retry" /\ calls[3].reply = "threw") =>
    /\ pc = "returned"
    /\ response.translatedText = calls[2].output

(* C24: the gateway calls of a run are made one after another, never two in
   flight: every call but the last has returned, and the run awaits exactly
   the last one while it is pending.  The first call comes first; a fallback
   is the second call, made with no parsed result; a verification is the
   second call, made with a parsed result; a retry is the third call, made
   after a verification that returned; no run has both a fallback and a
   verification call. *)
C24_CallsStrictlyOrdered ==
  /\ \A i \in 1..Len(calls) :
       /\ i < Len(calls) => calls[i].reply = "returned"
       /\ i = 1 <=> calls[i].kind = "first"
       /\ calls[i].kind = "fallback" => (i = 2 /\ result = null)
       /\ calls[i].kind = "verify" => (i = 2 /\ result # null)
       /\ calls[i].kind = "retry" =>
            (i = 3 /\ calls[2].kind = "verify" /\ calls[2].reply = "returned")
  /\ pending # null <=> (calls # <<>> /\ calls[Len(calls)].reply = "pending")
  /\ pending # null => (pending.kind = calls[Len(calls)].kind /\ pc = pending.kind)
  /\ ~(KindCount(calls, "fallback") > 0 /\ KindCount(calls, "verify") > 0)

\* The retry is in flight, after a first call and a verification that both
\* returned.
C24_Witness ==
  /\ pc = "retry"
  /\ Len(calls) = 3
  /\ calls[1].reply = "returned"
  /\ calls[2].reply = "returned"
  /\ calls[3].reply = "pending"

(* C27: the retry is made only when the verification output is exactly
   suggestedText.  With an empty suggestedText and a non-empty verification
   output the run ends after its second call and returns that output, also
   when the output repeats the request's text between two different
   languages, the case looksUntranslated would report. *)
C27_NoOpCheckIsExactEquality ==
  VerifyReturned =>
    /\ KindCount(calls, "retry") > 0 => result.suggestedText = calls[2].output
    /\ (result.suggestedText = <<>> /\ calls[2].output # <<>>) =>
         /\ Len(calls) = 2
         /\ pc = "returned"
         /\ response.translatedText = calls[2].output

\* A run returned, without a retry, a verified translation that
\* looksUntranslated would have reported.
C27_Witness ==
  /\ VerifyReturned
  /\ pc = "returned"
  /\ Len(calls) = 2
  /\ response.suggestedText = <<>>
  /\ response.translatedText = request.text
  /\ looksUntranslated([original       |-> request.text,
                        translated     |-> response.translatedText,
                        sourceLanguage |-> request.sourceLanguage,
                        targetLanguage |-> request.targetLanguage])

(* C28: a step that settles the verification or the retry call leaves
   detectedLanguage, languageMismatch and suggestedText of the result as
   parsing and normalisation made them, whatever the reply is, and the
   outcome returned by such a step carries those three values. *)
C28_OnlyTranslatedTextChanges ==
  [][(pc = "verify" \/ pc = "retry") =>
       /\ result'.detectedLanguage = result.detectedLanguage
       /\ result'.languageMismatch = result.languageMismatch
       /\ result'.suggestedText = result.suggestedText
       /\ pc' = "returned" =>
            /\ response'.detectedLanguage = result.detectedLanguage
            /\ response'.languageMismatch = result.languageMismatch
            /\ response'.suggestedText = result.suggestedText
    ]_vars

\* A run returned after a verification and a retry that each changed the
\* translation, with a mismatch reported for the requested source language.
C28_Witness ==
  /\ RetryReturned
  /\ pc = "returned"
  /\ response.translatedText # calls[2].output
  /\ response.languageMismatch
  /\ response.detectedLanguage = request.sourceLanguage
  /\ response.suggestedText = calls[2].output

\* The function the caller invoked has returned or rejected.
Ended ==
  IF mode = "json" THEN jpc \in {"returned", "rejected"}
  ELSE pc \in {"returned", "rejected"}

\* The gateway calls the running translateText may still make, the one in
\* flight included.
CallsLeft ==
  CASE pc = "first"    -> 3
    [] pc = "verify"   -> 2
    [] pc = "fallback" -> 1
    [] pc = "retry"    -> 1
    [] OTHER           -> 0

\* The largest number of strings in a tree given to translateJson.
MostLeaves ==
  CHOOSE n \in {Len(StringLeaves(JsonInputs[i])) : i \in 1..Len(JsonInputs)} :
    \A i \in 1..Len(JsonInputs) : Len(StringLeaves(JsonInputs[i])) <= n

\* No more than this many strings are left for translateJson to translate.
LeavesLeft == MostLeaves - Len(translated)

\* A measure of what is left to do: every step strictly lowers it.  Before
\* the caller's invocation it is above the measure of every run.
Rank ==
  IF mode = "idle" THEN 4 * MostLeaves + 5
  ELSE IF Ended THEN 0
  ELSE IF mode = "json" THEN 4 * LeavesLeft + CallsLeft + 1
  ELSE CallsLeft

(* C29: translateText ends after at most 3 gateway calls and translateJson
   after at most 3 gateway calls for each string of its tree, one
   translateText call per string: no run makes a fourth call, no tree has
   more translateText calls than strings, every step of a run lowers a
   natural-number measure of the calls and strings left, and a run that has
   not ended is waiting for nothing but the gateway call it has in flight
   (or is handing a finished translateText back to the traversal). *)
C29_BoundedTermination ==
  /\ [](/\ Len(calls) <= 3
        /\ Rank >= 0
        /\ jsonRequest # null => Len(sent) <= Len(StringLeaves(jsonRequest.jsonData))
        /\ (mode # "idle" /\ ~Ended) =>
             \/ pending # null /\ pc = pending.kind
             \/ mode = "json" /\ jpc = "awaiting" /\ pc \in {"returned", "rejected"})
  /\ [][Rank' < Rank]_vars

\* translateJson returned a tree of two strings, the last of which took three
\* gateway calls that all returned.
C29_Witness ==
  /\ mode = "json"
  /\ jpc = "returned"
  /\ Len(translated) = 2
  /\ RetryReturned

---------------------------------------------------------------------------
(* The order of the traversal *)

\* The string leaves of a JSON value, arrays in index order and objects in
\* the order in which their properties were created.
RECURSIVE LeavesAsInserted(_)
RECURSIVE LeavesOfSeqAsInserted(_, _)
LeavesAsInserted(x) ==
  IF x.t = "string" THEN <<x.v>>
  ELSE IF x.t = "array" THEN LeavesOfSeqAsInserted(x.v, FALSE)
  ELSE IF x.t = "object" THEN LeavesOfSeqAsInserted(x.v, TRUE)
  ELSE <<>>
LeavesOfSeqAsInserted(xs, props) ==
  IF xs = <<>> THEN <<>>
  ELSE LeavesAsInserted(IF props THEN Head(xs).v ELSE Head(xs))
       \o LeavesOfSeqAsInserted(Tail(xs), props)

(* C26, as stated: when translateJson has returned, translateText was called
   once for each string leaf, and the texts it was given are the leaves in
   index order for arrays and in insertion order for objects. *)
C26_Original ==
  jpc = "returned" => sent = LeavesAsInserted(jsonRequest.jsonData)

(* C26, amended: translateText is called for one leaf at a time, and the
   texts it is given are the string leaves of the tree, duplicates and empty
   strings included, in index order for arrays and in Object.entries order
   for objects (array-index keys in ascending numeric order, then the other
   keys in insertion order); when translateJson has returned there was one
   call, with its own result, for every leaf. *)
C26_OneCallPerLeafInEntriesOrder ==
  (jsonRequest # null /\ IsValidJsonData(jsonRequest.jsonData)) =>
    LET leaves == StringLeaves(jsonRequest.jsonData) IN
    /\ Len(leaves) = Len(LeavesAsInserted(jsonRequest.jsonData))
    /\ Len(sent) <= Len(leaves)
    /\ sent = SubSeq(leaves, 1, Len(sent))
    /\ jpc = "awaiting" =>
         /\ Len(sent) = Len(translated) + 1
         /\ request.text = sent[Len(sent)]
    /\ jpc = "returned" =>
         /\ sent = leaves
         /\ Len(translated) = Len(leaves)

\* translateJson returned a tree whose two equal strings were translated
\* differently, each by its own call.
C26_Witness ==
  /\ jpc = "returned"
  /\ sent = << <<"a">>, <<"a">> >>
  /\ translated[1] # translated[2]
  /\ StringLeaves(jsonResponse.translatedJson) = translated

---------------------------------------------------------------------------
(* The white-space normalisation on longer texts *)

\* translateJson just after its entry, given an array of one string: the
\* string's translateText has issued its first call.
LongTextInit ==
  \E text \in Strs(MaxNormLen), provider \in {"openai", "anthropic"} :
    LET jr  == [jsonData |-> JArr(<<JStr(text)>>), sourceLanguage |-> "English",
                targetLanguage |-> "Korean", provider |-> provider]
        req == LeafRequest(jr, text)
    IN  /\ mode = "json"
        /\ jsonRequest = jr
        /\ jpc = "awaiting"
        /\ translated = <<>>
        /\ sent = <<text>>
        /\ jsonResponse = null
        /\ request = req
        /\ result = null
        /\ response = null
        /\ calls = << [kind |-> "first", client |-> FirstClient(provider),
                       api |-> FirstApi(provider), reply |-> "pending",
                       output |-> <<>>] >>
        /\ pending = [kind |-> "first", client |-> FirstClient(provider),
                      api |-> FirstApi(provider), input |-> UserContent(req)]
        /\ pc = "first"
        /\ parserInput = null
        /\ parserOutput = null
        /\ ui = null
        /\ handler = null

LongTextNext ==
  \/ FirstReply
  \/ FallbackReply
  \/ VerifyReply
  \/ RetryReply
  \/ LeafReturn
  \/ LeafReject

LongTextSpec == LongTextInit /\ [][LongTextNext]_vars

(* C25: once the first reply has parsed and the verification call has been
   issued, a suggestedText that came with languageMismatch = true and was
   empty, or equal to the request's text after white-space runs are
   collapsed and both ends trimmed, is "" in the result; this holds while
   the verification call is still in flight, and the retry that follows a
   returned verification is made exactly when the verification output
   equals the suggestedText so normalised. *)
C25_MismatchSuggestionNormalised ==
  (Len(calls) >= 2 /\ calls[2].kind = "verify") =>
    LET suggested == calls[1].output IN
    /\ ( /\ result.languageMismatch
         /\ \/ suggested = <<>>
            \/ normOneLine(suggested) = normOneLine(request.text) )
         => result.suggestedText = <<>>
    /\ result.suggestedText \in {suggested, <<>>}
    /\ VerifyReturned =>
         (Len(calls) = 3 <=> result.suggestedText = calls[2].output)

\* The verification call is in flight after a reply whose suggestedText
\* differed from the request's text, also when both are trimmed, only in
\* its runs of white space, and the result carries no suggestion.
C25_Witness ==
  /\ pc = "verify"
  /\ result.languageMismatch
  /\ calls[1].output # <<>>
  /\ TrimStr(calls[1].output) # TrimStr(request.text)
  /\ normOneLine(calls[1].output) = normOneLine(request.text)
  /\ result.suggestedText = <<>>

---------------------------------------------------------------------------
(* safeParseAiJson on its own *)

\* The names safeParseAiJson looks up, in the order it tests them.
AiFields == <<"detectedLanguage", "languageMismatch", "suggestedText", "translatedText">>

\* What a property of a decoded reply may hold: a string (empty or not), a
\* number, a boolean, null, an array, an object.
FieldSamples ==
  << JStr(<<>>), JStr(<<"a">>), JNum(0), JBool(FALSE), JNull, JArr(<<>>), JObj(<<>>) >>

\* The object whose property AiFields[i] holds FieldSamples[f[i]], and is
\* absent when f[i] = 0.
RECURSIVE PropsFrom(_, _)
PropsFrom(f, i) ==
  IF i > Len(AiFields) THEN <<>>
  ELSE (IF f[i] = 0 THEN <<>> ELSE <<Prop(AiFields[i], FieldSamples[f[i]])>>)
       \o PropsFrom(f, i + 1)

\* Replies that are no JSON text, or JSON text of something else than an
\* object.
OtherReplies ==
  << [decodes |-> FALSE],
     [decodes |-> TRUE, val |-> JNull],
     [decodes |-> TRUE, val |-> JBool(FALSE)],
     [decodes |-> TRUE, val |-> JBool(TRUE)],
     [decodes |-> TRUE, val |-> JNum(0)],
     [decodes |-> TRUE, val |-> JNum(1)],
     [decodes |-> TRUE, val |-> JStr(<<>>)],
     [decodes |-> TRUE, val |-> JStr(<<"a">>)],
     [decodes |-> TRUE, val |-> JArr(<<>>)],
     [decodes |-> TRUE, val |-> JArr(<<JStr(<<"a">>)>>)] >>

\* safeParseAiJson is about to be called on a reply.
ParserInit ==
  /\ mode = "idle"
  /\ request = null
  /\ pc = "idle"
  /\ result = null
  /\ response = null
  /\ calls = <<>>
  /\ pending = null
  /\ jsonRequest = null
  /\ jpc = "idle"
  /\ translated = <<>>
  /\ sent = <<>>
  /\ jsonResponse = null
  /\ ui = null
  /\ handler = null
  /\ parserOutput = [state |-> "called"]
  /\ \/ \E i \in 1..Len(OtherReplies) : parserInput = OtherReplies[i]
     \/ \E f \in [1..Len(AiFields) -> 0..Len(FieldSamples)] :
          parserInput = [decodes |-> TRUE, val |-> JObj(PropsFrom(f, 1))]

\* The call runs to its end: the try block returns the parsed object or
\* null, and its catch turns what JSON.parse throws into null.
SafeParse ==
  /\ parserOutput.state = "called"
  /\ parserOutput' = [state |-> "returned", value |-> safeParseAiJson(parserInput)]
  /\ UNCHANGED <<parserInput, serviceVars, uiVars>>

ParserNext == SafeParse

ParserSpec == ParserInit /\ [][ParserNext]_vars

\* The kind typeof reports for x[key]: "undefined" when x has no such
\* property or is no object.
KindAt(x, key) ==
  IF x.t = "object" /\ \E i \in 1..Len(x.v) : x.v[i].k = key
  THEN LET k == (x.v[CHOOSE i \in 1..Len(x.v) : x.v[i].k = key]).v.t
       IN  IF k \in {"null", "array"} THEN "object" ELSE k
  ELSE "undefined"

\* The reply decodes to a value that has the four fields with their kinds.
WellFormedReply(raw) ==
  /\ raw.decodes
  /\ KindAt(raw.val, "detectedLanguage") = "string"
  /\ KindAt(raw.val, "languageMismatch") = "boolean"
  /\ KindAt(raw.val, "suggestedText") = "string"
  /\ KindAt(raw.val, "translatedText") = "string"

(* C14: safeParseAiJson never throws, and it returns a result, carrying the
   four fields of the reply, exactly when the reply decodes to a value that
   has detectedLanguage: string, languageMismatch: boolean, suggestedText:
   string and translatedText: string; for every other reply it returns
   null. *)
C14_ParserExact ==
  /\ parserOutput.state \in {"called", "returned"}
  /\ parserOutput.state = "returned" =>
       IF WellFormedReply(parserInput)
       THEN /\ parserOutput.value # null
            /\ \A i \in 1..Len(parserInput.val.v) :
                 LET p == parserInput.val.v[i] IN
                 /\ p.k = "detectedLanguage" => parserOutput.value.detectedLanguage = p.v.v
                 /\ p.k = "languageMismatch" => parserOutput.value.languageMismatch = p.v.v
                 /\ p.k = "suggestedText" => parserOutput.value.suggestedText = p.v.v
                 /\ p.k = "translatedText" => parserOutput.value.translatedText = p.v.v
       ELSE parserOutput.value = null

\* The parser has refused an object that has a translatedText but lacks
\* another field.
C14_Witness ==
  /\ parserOutput.state = "returned"
  /\ parserOutput.value = null
  /\ parserInput.decodes
  /\ KindAt(parserInput.val, "translatedText") = "string"
  /\ KindAt(parserInput.val, "suggestedText") = "undefined"

---------------------------------------------------------------------------
(* JSON text *)

\* The characters of a word, for the words that JSON text is made of.
NullWord  == <<"n", "u", "l", "l">>
TrueWord  == <<"t", "r", "u", "e">>
FalseWord == <<"f", "a", "l", "s", "e">>

StartsWith(s, w) == Len(s) >= Len(w) /\ SubSeq(s, 1, Len(w)) = w
Drop(s, n) == SubSeq(s, n + 1, Len(s))

ParseFail == [ok |-> FALSE]
Parsed(val, rest) == [ok |-> TRUE, val |-> val, rest |-> rest]

\* JSON.parse defines each member as an own property of the object it
\* builds, __proto__ included; a name met again takes the later value.
DefineOwn(es, key, val) ==
  IF \E i \in 1..Len(es) : es[i].k = key
  THEN [i \in 1..Len(es) |-> IF es[i].k = key THEN Prop(key, val) ELSE es[i]]
  ELSE Append(es, Prop(key, val))

\* JSON.parse, for JSON text whose strings have no escapes and whose numbers
\* are one digit: each operator reads one construct at the head of s and
\* gives the value read with the rest of s, or ParseFail.
RECURSIVE ParseString(_, _)
RECURSIVE ParseValue(_)
RECURSIVE ParseElements(_, _)
RECURSIVE ParseMembers(_, _)
ParseString(s, acc) ==
  IF s = <<>> THEN ParseFail
  ELSE IF Head(s) = "\"" THEN Parsed(JStr(acc), Tail(s))
  ELSE IF Head(s) = "\n" THEN ParseFail
  ELSE ParseString(Tail(s), Append(acc, Head(s)))
ParseValue(s) ==
  LET t == TrimStart(s) IN
  IF t = <<>> THEN ParseFail
  ELSE IF Head(t) = "\"" THEN ParseString(Tail(t), <<>>)
  ELSE IF Head(t) = "[" THEN
    LET u == TrimStart(Tail(t)) IN
    IF u # <<>> /\ Head(u) = "]" THEN Parsed(JArr(<<>>), Tail(u))
    ELSE ParseElements(u, <<>>)
  ELSE IF Head(t) = "{" THEN
    LET u == TrimStart(Tail(t)) IN
    IF u # <<>> /\ Head(u) = "}" THEN Parsed(JObj(<<>>), Tail(u))
    ELSE ParseMembers(u, <<>>)
  ELSE IF \E n \in 1..Len(Digits) : Digits[n] = Head(t)
    THEN Parsed(JNum((CHOOSE n \in 1..Len(Digits) : Digits[n] = Head(t)) - 1), Tail(t))
  ELSE IF StartsWith(t, NullWord) THEN Parsed(JNull, Drop(t, Len(NullWord)))
  ELSE IF StartsWith(t, TrueWord) THEN Parsed(JBool(TRUE), Drop(t, Len(TrueWord)))
  ELSE IF StartsWith(t, FalseWord) THEN Parsed(JBool(FALSE), Drop(t, Len(FalseWord)))
  ELSE ParseFail
ParseElements(s, acc) ==
  LET r == ParseValue(s) IN
  IF ~r.ok THEN ParseFail
  ELSE LET t == TrimStart(r.rest) IN
       IF t = <<>> THEN ParseFail
       ELSE IF Head(t) = "," THEN ParseElements(Tail(t), Append(acc, r.val))
       ELSE IF Head(t) = "]" THEN Parsed(JArr(Append(acc, r.val)), Tail(t))
       ELSE ParseFail
ParseMembers(s, acc) ==
  LET t == TrimStart(s) IN
  IF t = <<>> \/ Head(t) # "\"" THEN ParseFail
  ELSE LET k == ParseString(Tail(t), <<>>) IN
       IF ~k.ok THEN ParseFail
       ELSE LET u == TrimStart(k.rest) IN
            IF u = <<>> \/ Head(u) # ":" THEN ParseFail
            ELSE LET r == ParseValue(Tail(u)) IN
                 IF ~r.ok THEN ParseFail
                 ELSE LET w == TrimStart(r.rest)
                          es == DefineOwn(acc, k.val.v, r.val)
                      IN  IF w = <<>> THEN ParseFail
                          ELSE IF Head(w) = "," THEN ParseMembers(Tail(w), es)
                          ELSE IF Head(w) = "}" THEN Parsed(JObj(es), Tail(w))
                          ELSE ParseFail

\* JSON.parse(text): the text must be one value, white space around it
\* allowed; anything else is a SyntaxError.
JsonParse(jsonString) ==
  LET r == ParseValue(jsonString) IN
  IF r.ok /\ TrimStart(r.rest) = <<>> THEN [ok |-> TRUE, val |-> r.val] ELSE ParseFail

\* n spaces.
Spaces(n) == [i \in 1..n |-> " "]

\* JSON.stringify(value, null, 2).
RECURSIVE Stringify(_, _)
RECURSIVE StringifyItems(_, _)
RECURSIVE StringifyProps(_, _)
Stringify(x, indent) ==
  CASE x.t = "string"  -> <<"\"">> \o x.v \o <<"\"">>
    [] x.t = "number"  -> <<Digits[x.v + 1]>>
    [] x.t = "boolean" -> IF x.v THEN TrueWord ELSE FalseWord
    [] x.t = "null"    -> NullWord
    [] x.t = "array"   ->
         IF x.v = <<>> THEN <<"[", "]">>
         ELSE <<"[", "\n">> \o StringifyItems(x.v, indent + 2)
              \o <<"\n">> \o Spaces(indent) \o <<"]">>
    [] x.t = "object"  ->
         IF x.v = <<>> THEN <<"{", "}">>
         ELSE <<"{", "\n">> \o StringifyProps(ObjectEntries(x.v), indent + 2)
              \o <<"\n">> \o Spaces(indent) \o <<"}">>
StringifyItems(xs, indent) ==
  Spaces(indent) \o Stringify(Head(xs), indent)
  \o (IF Len(xs) = 1 THEN <<>> ELSE <<",", "\n">> \o StringifyItems(Tail(xs), indent))
StringifyProps(es, indent) ==
  Spaces(indent) \o <<"\"">> \o Head(es).k \o <<"\"", ":", " ">>
  \o Stringify(Head(es).v, indent)
  \o (IF Len(es) = 1 THEN <<>> ELSE <<",", "\n">> \o StringifyProps(Tail(es), indent))

---------------------------------------------------------------------------
(* The TranslationInterface component *)

\* A state value that is not null.
Some(x) == [isNull |-> FALSE, v |-> x]

\* The value undefined.
undefined == [isUndefined |-> TRUE]

\* The catalogue of models (config/languages): the models each provider
\* offers, by their ids, and the one preselected for a provider.  Each
\* default is a member of its provider's list.
providerModels(p) ==
  CASE p = "openai"    -> <<"gpt-a", "gpt-b">>
    [] p = "anthropic" -> <<"claude-a", "claude-b">>
    [] OTHER           -> undefined

defaultModelByProvider(p) ==
  CASE p = "openai"    -> "gpt-a"
    [] p = "anthropic" -> "claude-b"
    [] OTHER           -> undefined

\* providerModels[p] ?? []
ModelsOrNone(p) == IF providerModels(p) = undefined THEN <<>> ELSE providerModels(p)

\* A test that lets every model pass.
isModelAllowedLoosely(p, m) == TRUE

\* (providerModels[p] ?? []).some((x) => x.id === m)
isModelAllowedForProvider(p, m) ==
  \E i \in 1..Len(ModelsOrNone(p)) : ModelsOrNone(p)[i] = m

\* The component's state after its first render.
UiInitial ==
  [activeTab          |-> "text",
   inputText          |-> <<>>,
   jsonInput          |-> <<>>,
   translatedText     |-> <<>>,
   translatedJson     |-> <<>>,
   sourceLanguage     |-> "English",
   targetLanguage     |-> "Spanish",
   provider           |-> "openai",
   model              |-> defaultModelByProvider("openai"),
   isLoading          |-> FALSE,
   error              |-> null,
   languageSuggestion |-> null]

\* The texts the user may put in the JSON textarea: JSON text of an array
\* with a string, of an object without strings, of a string and of null;
\* text that is no JSON; and white space only.
JsonTexts ==
  << <<" ", "[", "\"", "a", "\"", "]", "\n">>,
     <<"{", "\"", "a", "\"", ":", " ", "1", "}">>,
     <<"\"", "a", "\"">>,
     NullWord,
     <<"{">>,
     <<"[", "\"", "a">>,
     <<"{", "\"", "a", "\"", ":", "\"", "a", "\"", ",", "}">>,
     <<"[", "]", " ", "a">>,
     <<"a">>,
     <<" ">> >>

InvalidJsonMsg == "Invalid JSON format. Please check your syntax."

\* A validation that gives null for text it cannot parse.
validateJsonLenient(jsonString) ==
  LET r == JsonParse(jsonString) IN
  [threw |-> FALSE, value |-> IF r.ok THEN r.val ELSE JNull]

\* validateJson: the parsed value, or the ApiError thrown from its catch.
validateJson(jsonString) ==
  LET r == JsonParse(jsonString) IN
  IF r.ok THEN [threw |-> FALSE, value |-> r.val]
  ELSE [threw |-> TRUE,
        error |-> [isError |-> FALSE, message |-> InvalidJsonMsg, code |-> "INVALID_JSON"]]

\* apiError.message || dflt
MessageOr(apiError, dflt) == IF apiError.message # "" THEN apiError.message ELSE dflt

\* A run of handleJsonTranslation: the jsonInput it was started with, where
\* it stands ("await": suspended at translateJson; "done"), whether it
\* called translateJson, and what its catch block caught; `cleared` tells
\* whether clearAll has run since the handler was started.
JsonHandler(jsonInput, at, called, caught) ==
  [name |-> "handleJsonTranslation", jsonInput |-> jsonInput, at |-> at,
   called |-> called, caught |-> caught, cleared |-> FALSE]

\* getSafeModel, on the provider and model of the current render.
getSafeModel ==
  IF isModelAllowedForProvider(ui.provider, ui.model)
  THEN ui.model ELSE defaultModelByProvider(ui.provider)

UiInit ==
  /\ mode = "idle"
  /\ request = null
  /\ pc = "idle"
  /\ result = null
  /\ response = null
  /\ calls = <<>>
  /\ pending = null
  /\ jsonRequest = null
  /\ jpc = "idle"
  /\ translated = <<>>
  /\ sent = <<>>
  /\ jsonResponse = null
  /\ parserInput = null
  /\ parserOutput = null
  /\ ui = UiInitial
  /\ handler = null

\* The user picks a tab; the tab buttons are always enabled.
SetActiveTab ==
  /\ \E tab \in {"text", "json"} : ui' = [ui EXCEPT !.activeTab = tab]
  /\ UNCHANGED <<handler, serviceVars, parserVars>>

\* The user edits the JSON textarea, shown on the JSON tab and disabled
\* while isLoading.
SetJsonInputFrom(texts) ==
  /\ ui.activeTab = "json"
  /\ ~ui.isLoading
  /\ \E i \in 1..Len(texts) : ui' = [ui EXCEPT !.jsonInput = texts[i]]
  /\ UNCHANGED <<handler, serviceVars, parserVars>>

SetJsonInput == SetJsonInputFrom(JsonTexts)

\* The user clicks "Translate JSON", shown on the JSON tab and enabled
\* unless isLoading or the input is blank: handleJsonTranslation runs to its
\* end, or to its await of translateJson.
HandleJsonTranslation ==
  /\ ui.activeTab = "json"
  /\ ~ui.isLoading
  /\ TrimStr(ui.jsonInput) # <<>>
  /\ UNCHANGED parserVars
  /\ IF TrimStr(ui.jsonInput) = <<>>
     THEN /\ ui' = [ui EXCEPT !.error = Some("Please paste JSON to translate")]
          /\ handler' = JsonHandler(ui.jsonInput, "done", FALSE, null)
          /\ UNCHANGED serviceVars
     ELSE LET v == validateJson(ui.jsonInput) IN
          IF v.threw
          THEN /\ ui' = [ui EXCEPT !.isLoading = FALSE,
                                   !.error = Some(MessageOr(v.error, "JSON translation failed")),
                                   !.translatedJson = <<>>]
               /\ handler' = JsonHandler(ui.jsonInput, "done", FALSE, v.error)
               /\ UNCHANGED serviceVars
          ELSE /\ ui' = [ui EXCEPT !.isLoading = TRUE, !.error = null,
                                   !.translatedJson = <<>>]
               /\ handler' = JsonHandler(ui.jsonInput, "await", TRUE, null)
               /\ mode' = "json"
               /\ StartTranslateJson([jsonData       |-> v.value,
                                      sourceLanguage |-> ui.sourceLanguage,
                                      targetLanguage |-> ui.targetLanguage,
                                      provider       |-> ui.provider,
                                      model          |-> getSafeModel])

\* The service call is over and nothing of it remains.
ServiceCallEnds ==
  /\ mode' = "idle"
  /\ request' = null
  /\ pc' = "idle"
  /\ result' = null
  /\ response' = null
  /\ calls' = <<>>
  /\ pending' = null
  /\ jsonRequest' = null
  /\ jpc' = "idle"
  /\ translated' = <<>>
  /\ sent' = <<>>
  /\ jsonResponse' = null

\* translateJson has settled and handleJsonTranslation resumes: the rest of
\* its try block or its catch block, then its finally block.
JsonSettled ==
  /\ handler # null
  /\ handler.at = "await"
  /\ mode = "json"
  /\ jpc \in {"returned", "rejected"}
  /\ IF jpc = "returned"
     THEN /\ ui' = [ui EXCEPT !.translatedJson = Stringify(jsonResponse.translatedJson, 0),
                              !.isLoading = FALSE]
          /\ handler' = [handler EXCEPT !.at = "done"]
     ELSE /\ ui' = [ui EXCEPT !.error = Some(MessageOr(jsonResponse, "JSON translation failed")),
                              !.isLoading = FALSE]
          /\ handler' = [handler EXCEPT !.at = "done", !.caught = jsonResponse]
  /\ ServiceCallEnds
  /\ UNCHANGED parserVars

\* The texts the user may put in the text textarea: a word, a word with
\* white space around it, and white space only.
TextInputs == << <<"a">>, <<" ", "a">>, <<" ">> >>

\* A run of handleTextTranslation: the request it built, where it stands
\* ("await": suspended at translateText; "done"), the response it was
\* given, and what its catch block caught; `cleared` tells whether clearAll
\* has run since the handler was started.
TextHandler(req, at, caught) ==
  [name |-> "handleTextTranslation", request |-> req, at |-> at,
   response |-> null, caught |-> caught, cleared |-> FALSE]

\* A languageSuggestion that takes over the languageMismatch of the response.
LanguageSuggestionCopied(resp, req) ==
  [detectedLanguage |-> IF resp.detectedLanguage # ""
                        THEN resp.detectedLanguage ELSE req.sourceLanguage,
   languageMismatch |-> resp.languageMismatch,
   suggestedText    |-> IF resp.languageMismatch /\ resp.suggestedText = <<>>
                        THEN undefined ELSE Some(resp.suggestedText)]

\* The languageSuggestion the handler sets from a response.
LanguageSuggestionOf(resp, req) ==
  IF resp.detectedLanguage = req.sourceLanguage
  THEN [detectedLanguage |-> req.sourceLanguage,
        languageMismatch |-> FALSE,
        suggestedText    |-> Some(resp.suggestedText)]
  ELSE [detectedLanguage |-> IF resp.detectedLanguage # ""
                             THEN resp.detectedLanguage ELSE req.sourceLanguage,
        languageMismatch |-> TRUE,
        suggestedText    |-> IF resp.suggestedText # <<>>
                             THEN Some(resp.suggestedText) ELSE undefined]

\* The user edits the text textarea, shown on the text tab and disabled
\* while isLoading.
SetInputTextFrom(texts) ==
  /\ ui.activeTab = "text"
  /\ ~ui.isLoading
  /\ \E i \in 1..Len(texts) : ui' = [ui EXCEPT !.inputText = texts[i]]
  /\ UNCHANGED <<handler, serviceVars, parserVars>>

SetInputText == SetInputTextFrom(TextInputs)

\* A "Translate Text" button that stays enabled while isLoading.
HandleTextTranslationAlwaysEnabled ==
  /\ ui.activeTab = "text"
  /\ TrimStr(ui.inputText) # <<>>
  /\ UNCHANGED parserVars
  /\ LET req == [text           |-> ui.inputText,
                 sourceLanguage |-> ui.sourceLanguage,
                 targetLanguage |-> ui.targetLanguage,
                 provider       |-> ui.provider,
                 model          |-> getSafeModel]
     IN  /\ ui' = [ui EXCEPT !.isLoading = TRUE, !.error = null,
                             !.translatedText = <<>>, !.languageSuggestion = null]
         /\ handler' = TextHandler(req, "await", null)
         /\ mode' = "text"
         /\ StartTranslateText(req)
         /\ UNCHANGED jsonVars

\* The user clicks "Translate Text", shown on the text tab and enabled
\* unless isLoading or the input is blank: handleTextTranslation runs to its
\* end, or to its await of translateText.
HandleTextTranslation ==
  /\ ui.activeTab = "text"
  /\ ~ui.isLoading
  /\ TrimStr(ui.inputText) # <<>>
  /\ UNCHANGED parserVars
  /\ IF TrimStr(ui.inputText) = <<>>
     THEN /\ ui' = [ui EXCEPT !.error = Some("Please enter text to translate")]
          /\ UNCHANGED <<handler, serviceVars>>
     ELSE LET req == [text           |-> ui.inputText,
                      sourceLanguage |-> ui.sourceLanguage,
                      targetLanguage |-> ui.targetLanguage,
                      provider       |-> ui.provider,
                      model          |-> getSafeModel]
          IN  /\ ui' = [ui EXCEPT !.isLoading = TRUE, !.error = null,
                                  !.translatedText = <<>>, !.languageSuggestion = null]
              /\ handler' = TextHandler(req, "await", null)
              /\ mode' = "text"
              /\ StartTranslateText(req)
              /\ UNCHANGED jsonVars

\* A handler that sets isLoading back at the end of its try block only.
TextSettledWithoutFinally ==
  /\ handler # null
  /\ handler.at = "await"
  /\ mode = "text"
  /\ pc \in {"returned", "rejected"}
  /\ IF pc = "returned"
     THEN /\ ui' = [ui EXCEPT !.translatedText = response.translatedText,
                              !.languageSuggestion =
                                 Some(LanguageSuggestionOf(response, handler.request)),
                              !.isLoading = FALSE]
          /\ handler' = [handler EXCEPT !.at = "done", !.response = response]
     ELSE /\ ui' = [ui EXCEPT !.error = Some(MessageOr(response, "Translation failed"))]
          /\ handler' = [handler EXCEPT !.at = "done", !.caught = response]
  /\ ServiceCallEnds
  /\ UNCHANGED parserVars

\* translateText has settled and handleTextTranslation resumes: the rest of
\* its try block or its catch block, then its finally block.
TextSettled ==
  /\ handler # null
  /\ handler.at = "await"
  /\ mode = "text"
  /\ pc \in {"returned", "rejected"}
  /\ IF pc = "returned"
     THEN /\ ui' = [ui EXCEPT !.translatedText = response.translatedText,
                              !.languageSuggestion =
                                 Some(LanguageSuggestionOf(response, handler.request)),
                              !.isLoading = FALSE]
          /\ handler' = [handler EXCEPT !.at = "done", !.response = response]
     ELSE /\ ui' = [ui EXCEPT !.error = Some(MessageOr(response, "Translation failed")),
                              !.isLoading = FALSE]
          /\ handler' = [handler EXCEPT !.at = "done", !.caught = response]
  /\ ServiceCallEnds
  /\ UNCHANGED parserVars

UiNext ==
  \/ SetActiveTab
  \/ SetInputText
  \/ HandleTextTranslation
  \/ TextSettled
  \/ SetJsonInput
  \/ HandleJsonTranslation
  \/ FirstReply
  \/ FallbackReply
  \/ VerifyReply
  \/ RetryReply
  \/ LeafReturn
  \/ LeafReject
  \/ JsonSettled

UiSpec == UiInit /\ [][UiNext]_vars

(* C17: when the JSON text the handler was started with does not parse,
   validateJson throws an ApiError of code INVALID_JSON, and the handler
   ends at once with that error's message shown, isLoading false and no
   output, without having called translateJson and with no gateway call
   issued; a handler that did call translateJson was started with text that
   parses. *)
C17_InvalidJsonNeverReachesService ==
  (handler # null /\ handler.name = "handleJsonTranslation") =>
    /\ ~JsonParse(handler.jsonInput).ok =>
         /\ handler.at = "done"
         /\ ~handler.called
         /\ handler.caught # null
         /\ handler.caught.code = "INVALID_JSON"
         /\ ui.error = Some(handler.caught.message)
         /\ ui.error.v = "Invalid JSON format. Please check your syntax."
         /\ ~ui.isLoading
         /\ ui.translatedJson = <<>>
         /\ mode = "idle"
         /\ jsonRequest = null
         /\ calls = <<>>
         /\ pending = null
    /\ (mode = "json" \/ handler.called) => JsonParse(handler.jsonInput).ok

\* A handler started with text that is not blank and does not parse has
\* ended.
C17_Witness ==
  /\ handler # null
  /\ handler.name = "handleJsonTranslation"
  /\ handler.at = "done"
  /\ ~JsonParse(handler.jsonInput).ok
  /\ TrimStr(handler.jsonInput) # <<>>
  /\ ui.error # null

(* C30: isLoading is true exactly while a handler is suspended at its
   service call, and exactly then a service call of the component is in
   flight: one call, of the handler that is suspended.  While isLoading is
   true neither "Translate Text" nor "Translate JSON" can start a handler. *)
C30_OneTranslationInFlight ==
  /\ ui.isLoading <=> (handler # null /\ handler.at = "await")
  /\ ui.isLoading <=> mode # "idle"
  /\ mode = "text" =>
       /\ handler.name = "handleTextTranslation"
       /\ request = handler.request
       /\ jsonRequest = null
  /\ mode = "json" =>
       /\ handler.name = "handleJsonTranslation"
       /\ handler.called
  /\ ui.isLoading =>
       /\ ~ENABLED HandleTextTranslation
       /\ ~ENABLED HandleJsonTranslation

\* A JSON translation is in flight while the text tab is shown with text
\* ready to be translated.
C30_Witness ==
  /\ ui.isLoading
  /\ mode = "json"
  /\ pending # null
  /\ ui.activeTab = "text"
  /\ TrimStr(ui.inputText) # <<>>


(* The other controls of the component *)

\* The languages offered by the two language selects: three of
\* supportedLanguages.
UiLanguages == {"English", "Spanish", "Korean"}

\* The providers offered by the provider select.
providers == {"openai", "anthropic"}

\* The user picks a source language; the select is always enabled.
SetSourceLanguage ==
  /\ \E lang \in UiLanguages :
       ui' = [ui EXCEPT !.sourceLanguage = lang, !.languageSuggestion = null]
  /\ UNCHANGED <<handler, serviceVars, parserVars>>

\* The user picks a target language; the select is always enabled.
SetTargetLanguage ==
  /\ \E lang \in UiLanguages : ui' = [ui EXCEPT !.targetLanguage = lang]
  /\ UNCHANGED <<handler, serviceVars, parserVars>>

\* The user clicks "Swap", which is always enabled.
swapLanguages ==
  /\ ui' = [ui EXCEPT !.sourceLanguage = ui.targetLanguage,
                      !.targetLanguage = ui.sourceLanguage,
                      !.languageSuggestion = null]
  /\ UNCHANGED <<handler, serviceVars, parserVars>>

\* The user clicks "Clear", shown on the JSON tab and always enabled.
clearAll ==
  /\ ui.activeTab = "json"
  /\ ui' = [ui EXCEPT !.inputText = <<>>, !.jsonInput = <<>>,
                      !.translatedText = <<>>, !.translatedJson = <<>>,
                      !.error = null, !.languageSuggestion = null]
  /\ handler' = IF handler = null THEN null ELSE [handler EXCEPT !.cleared = TRUE]
  /\ UNCHANGED <<serviceVars, parserVars>>

\* The user clicks the suggested text of "Did you mean ...?", shown on the
\* text tab while the suggestion carries a non-empty suggestedText.
UseSuggestedText ==
  /\ ui.activeTab = "text"
  /\ ui.languageSuggestion # null
  /\ ui.languageSuggestion.v.suggestedText # undefined
  /\ ui.languageSuggestion.v.suggestedText.v # <<>>
  /\ ui' = [ui EXCEPT !.inputText = ui.languageSuggestion.v.suggestedText.v,
                      !.languageSuggestion =
                         Some([ui.languageSuggestion.v EXCEPT !.suggestedText = Some(<<>>)])]
  /\ UNCHANGED <<handler, serviceVars, parserVars>>

\* The user clicks the detected language of "Did you mean ...?", shown on
\* the text tab while the suggestion says languageMismatch: the source
\* language is set and the suggestion object is changed in place.
UseDetectedLanguage ==
  /\ ui.activeTab = "text"
  /\ ui.languageSuggestion # null
  /\ ui.languageSuggestion.v.languageMismatch
  /\ ui' = [ui EXCEPT !.sourceLanguage = ui.languageSuggestion.v.detectedLanguage,
                      !.languageSuggestion =
                         Some([ui.languageSuggestion.v EXCEPT !.languageMismatch = FALSE])]
  /\ UNCHANGED <<handler, serviceVars, parserVars>>

\* The user picks a provider: the model is kept when the provider offers it
\* and is replaced by the provider's default otherwise.
SetProvider ==
  /\ \E nextProvider \in providers :
       ui' = [ui EXCEPT !.provider = nextProvider,
                        !.model = IF isModelAllowedForProvider(nextProvider, ui.model)
                                  THEN ui.model
                                  ELSE defaultModelByProvider(nextProvider)]
  /\ UNCHANGED <<handler, serviceVars, parserVars>>

\* The models the model select offers.
availableModels == ModelsOrNone(ui.provider)

\* The user picks one of the models offered.
SetModel ==
  /\ \E i \in 1..Len(availableModels) : ui' = [ui EXCEPT !.model = availableModels[i]]
  /\ UNCHANGED <<handler, serviceVars, parserVars>>

\* The user types a word in the text textarea.
TypeText == SetInputTextFrom(<< <<"a">> >>)

\* The user pastes JSON text in the JSON textarea: an array with a string,
\* or text that is no JSON.
TypeJson == SetJsonInputFrom(<<JsonTexts[1], JsonTexts[5]>>)


(* The text tab with its language controls *)

UiLanguageNext ==
  \/ SetInputText
  \/ HandleTextTranslation
  \/ FirstReply
  \/ FallbackReply
  \/ VerifyReply
  \/ RetryReply
  \/ TextSettled
  \/ SetSourceLanguage
  \/ SetTargetLanguage
  \/ swapLanguages
  \/ UseSuggestedText
  \/ UseDetectedLanguage

UiLanguageSpec == UiInit /\ [][UiLanguageNext]_vars

(* C34: the step in which handleTextTranslation resumes with a response sets
   a languageSuggestion whose languageMismatch is true exactly when the
   response's detectedLanguage differs from the sourceLanguage of the
   request the handler built, whatever the response's own languageMismatch
   says and whatever source language is selected by then. *)
C34_MismatchRecomputedFromResponse ==
  [][(/\ handler # null
      /\ handler.name = "handleTextTranslation"
      /\ handler.at = "await"
      /\ handler'.at = "done"
      /\ handler'.caught = null)
     => /\ ui'.languageSuggestion # null
        /\ ui'.languageSuggestion.v.languageMismatch
             <=> (response.detectedLanguage # handler.request.sourceLanguage)
        /\ ui'.translatedText = response.translatedText]_vars

\* The handler has ended with a response whose languageMismatch is not the
\* one the suggestion shows.
C34_Witness ==
  /\ handler # null
  /\ handler.name = "handleTextTranslation"
  /\ handler.at = "done"
  /\ handler.response # null
  /\ ui.languageSuggestion # null
  /\ ui.languageSuggestion.v.languageMismatch # handler.response.languageMismatch


(* C32: whenever a languageSuggestion is shown, it is the one a comparison
   with the source language now selected gives: its languageMismatch is
   true exactly when its detectedLanguage differs from the selected
   sourceLanguage, also after the source language was changed or swapped
   while the text translation was in flight. *)
C32_SuggestionAgainstSelectedSource ==
  ui.languageSuggestion # null =>
    (ui.languageSuggestion.v.languageMismatch
       <=> ui.languageSuggestion.v.detectedLanguage # ui.sourceLanguage)


(* Both tabs with Clear and the provider and model selects *)

UiControlsNext ==
  \/ SetActiveTab
  \/ TypeText
  \/ HandleTextTranslation
  \/ TextSettled
  \/ TypeJson
  \/ HandleJsonTranslation
  \/ FirstReply
  \/ FallbackReply
  \/ VerifyReply
  \/ RetryReply
  \/ LeafReturn
  \/ LeafReject
  \/ JsonSettled
  \/ clearAll
  \/ SetProvider
  \/ SetModel

UiControlsSpec == UiInit /\ [][UiControlsNext]_vars

(* C33: once clearAll has run, and until a translate button starts a new
   handler, translatedText, translatedJson, error and languageSuggestion are
   empty, also when clearAll ran while the handler was waiting for its
   service call. *)
C33_ClearedStaysEmpty ==
  (handler # null /\ handler.cleared) =>
    /\ ui.translatedText = <<>>
    /\ ui.translatedJson = <<>>
    /\ ui.error = null
    /\ ui.languageSuggestion = null

\* The provider offers the model.
ModelOffered(p, m) == \E i \in 1..Len(providerModels(p)) : providerModels(p)[i] = m

(* C35: the request of the translateText or translateJson call that the
   component has in flight, and the request a text handler built, carry a
   model that the catalogue lists for the request's provider, whatever
   providers and models were selected before. *)
C35_RequestModelAllowed ==
  /\ mode = "text" => ModelOffered(request.provider, request.model)
  /\ mode = "json" => ModelOffered(jsonRequest.provider, jsonRequest.model)
  /\ (handler # null /\ handler.name = "handleTextTranslation") =>
       ModelOffered(handler.request.provider, handler.request.model)

\* A translateJson call is in flight for the second provider with a model
\* that is not its default, picked after the provider was changed.
C35_Witness ==
  /\ mode = "json"
  /\ jsonRequest.provider = "anthropic"
  /\ jsonRequest.model = "claude-a"
  /\ pending # null


(* Both tabs, with every pending call settling *)

UiFairNext ==
  \/ SetActiveTab
  \/ TypeText
  \/ HandleTextTranslation
  \/ TextSettled
  \/ TypeJson
  \/ HandleJsonTranslation
  \/ FirstReply
  \/ FallbackReply
  \/ VerifyReply
  \/ RetryReply
  \/ LeafReturn
  \/ LeafReject
  \/ JsonSettled
  \/ clearAll

\* A step of the service: the gateway call that is pending settles, or
\* translateJson goes on after the translateText call of a leaf.
ServiceStep ==
  FirstReply \/ FallbackReply \/ VerifyReply \/ RetryReply \/ LeafReturn \/ LeafReject

\* The handler that waits for a settled service call is resumed.
HandlerResumes == TextSettled \/ JsonSettled

\* Every pending gateway call settles, and the event loop resumes a handler
\* whose promise has settled.
UiFairSpec ==
  /\ UiInit
  /\ [][UiFairNext]_vars
  /\ WF_vars(ServiceStep)
  /\ WF_vars(HandlerResumes)

(* C31: whenever isLoading is true it is false again later; and the step in
   which a handler resumes with a rejection of its service call sets error
   to a message, sets isLoading to false and leaves the handler's output,
   translatedText or translatedJson, empty. *)
C31_LoadingEndsAndRejectionShown ==
  /\ ui.isLoading ~> ~ui.isLoading
  /\ [][(/\ handler # null
         /\ handler.at = "await"
         /\ handler'.at = "done"
         /\ handler'.caught # null)
        => /\ ui'.error # null
           /\ ui'.error.v # ""
           /\ ~ui'.isLoading
           /\ handler.name = "handleTextTranslation" => ui'.translatedText = <<>>
           /\ handler.name = "handleJsonTranslation" => ui'.translatedJson = <<>>]_vars

\* A JSON handler that called translateJson has ended on its rejection.
C31_Witness ==
  /\ handler # null
  /\ handler.at = "done"
  /\ handler.caught # null
  /\ handler.name = "handleJsonTranslation"
  /\ handler.called
  /\ ~ui.isLoading
  /\ ui.error # null

=============================================================================
